---- MODULE Spec2Model ----
(***************************************************************************)
(* Model of ptto115.py: a single-threaded polling loop that walks the      *)
(* upload directory, checks each file's size stability, tries an instant   *)
(* upload through the 115 client, and moves a file to the transfer         *)
(* directory once its attempt counter exceeds TRY_MAX_COUNT.  Other        *)
(* parties (the writers of the upload directory) create, grow and delete   *)
(* files at any moment between two filesystem operations of the program.   *)
(***************************************************************************)
EXTENDS Integers, Sequences, FiniteSets, TLC

(***************************************************************************)
(* Bounds of the model.                                                    *)
(***************************************************************************)
\* ENV_TRY_MAX_COUNT is drawn from 0..MaxTryMaxCount
MaxTryMaxCount == 2
\* the polling loop halts before an attempt counter would pass MaxCount
MaxCount == 3
\* the max_attempts the stability check runs with (1000 in the source)
MaxProbes == 2

(***************************************************************************)
(* The upload tree: one file directly in UPLOAD_DIR and one of the same    *)
(* name in a subdirectory.  A path is <<root, filename>>.                  *)
(***************************************************************************)
Roots == <<".", "sub">>
Paths == {<<".", "x">>, <<"sub", "x">>}
Filenames == {p[2] : p \in Paths}
\* a file's content: a short one and a long one, of 1 and 2 bytes
Contents == {1, 2}
NoFile == <<>>
NoSha1 == <<>>
SHA1(c) == <<"sha1", c>>
Hashes == {SHA1(c) : c \in Contents}
Transport == {"ok", "not_ok", "error"}

VARIABLES
    TRY_MAX_COUNT,      \* int(os.getenv("ENV_TRY_MAX_COUNT"))
    TG_BOT_TOKEN,       \* "" when not configured
    TG_ADMIN_USER_ID,   \* 0 when not configured
    upload_dir,         \* [Paths -> Contents \cup {0}], 0: no file at the path
    transfer_dir,       \* [Filenames -> Contents \cup {0}], 0: no file of the name
    cache,              \* dict: path -> sha1
    attempt_count,      \* dict: path -> number of attempts
    client,             \* "none" | "ready"
    pc,                 \* position of main()
    walk,               \* number of directories os.walk has yielded this round
    files,              \* files of the yielded directory not yet iterated
    file_path,          \* the file being processed, NoFile between files
    attempt,            \* loop variable of check_file_size_stability
    size1,
    size2,
    stable,             \* return value of check_file_size_stability
    cached_sha1,
    upload_result,      \* [status |-> BOOLEAN, filesha1 |-> hash]
    fatal,              \* "" while main() runs, else what ended it
    requests_get,       \* TRUE once requests.get was called
    differ,             \* history: probes of this check that read two sizes
    old_count,          \* history: the file's counter when it was picked
    last_fail_sha1,     \* history: path -> hash of its last failure result,
                        \* NoSha1 once an upload call was made after it
    dropped,            \* history: path -> its cache entry was dropped at a
                        \* missing file or a move since that failure
    quarantined,        \* history: path -> its file was moved to transfer
                        \* and no file was created at the path since
    outcome,            \* history: how the processing of the last file
                        \* ended, "" once the program has gone on
    notified,           \* history: what the transport did in the
                        \* send_message call of that processing, or "none"
    calls               \* history: path -> the upload calls made for the file
                        \* that is at the path, 0 when there is none; kept
                        \* for the paths the specification counts them for

config == <<TRY_MAX_COUNT, TG_BOT_TOKEN, TG_ADMIN_USER_ID>>
disk == <<upload_dir, transfer_dir>>
tracking == <<cache, attempt_count>>
locals == <<file_path, attempt, size1, size2, stable, cached_sha1,
            upload_result>>
history == <<differ, old_count, last_fail_sha1, dropped, quarantined, outcome,
             notified, calls>>
vars == <<config, disk, tracking, client, pc, walk, files, locals, fatal,
          requests_get, history>>

(***************************************************************************)
(* Dictionaries.                                                           *)
(***************************************************************************)
Del(d, k) == [x \in DOMAIN d \ {k} |-> d[x]]
Put(d, k, v) == [x \in DOMAIN d \cup {k} |-> IF x = k THEN v ELSE d[x]]
Get(d, k, default) == IF k \in DOMAIN d THEN d[k] ELSE default
EmptyDict == [x \in {} |-> 0]
NoResult == [status |-> FALSE, filesha1 |-> NoSha1]

(***************************************************************************)
(* The filesystem as the program reads it.                                 *)
(***************************************************************************)
exists(p) == upload_dir[p] # 0
getsize(p) == upload_dir[p]
listdir(root) == {p \in Paths : p[1] = root /\ exists(p)}

(***************************************************************************)
(* check_file_size_stability: the comparison of one probe's two readings   *)
(* and the loop bound.                                                     *)
(***************************************************************************)
max_attempts == MaxProbes
SizesEqual_LessEq(s1, s2) == s1 <= s2
SizesEqual(s1, s2) == s1 = s2

(***************************************************************************)
(* init_115_client: P115Client(COOKIES) gives a client or raises, and the  *)
(* exception is raised again.                                              *)
(***************************************************************************)
ClientOutcomes == {"ready", "raise"}

(***************************************************************************)
(* TelegramNotifier.send_message: the value returned and whether           *)
(* requests.get was called, for a token, a message and what the transport  *)
(* does ("ok": the API answers ok, "not_ok": it answers an error,          *)
(* "error": a RequestException).                                           *)
(***************************************************************************)
send_message_NoTokenCheck(bot_token, message, transport) ==
    IF message = "" THEN [ret |-> FALSE, http |-> FALSE, raised |-> FALSE]
    ELSE [ret |-> (transport = "ok"), http |-> TRUE, raised |-> FALSE]
\* the same without the "except requests.exceptions.RequestException"
send_message_Uncaught(bot_token, message, transport) ==
    IF bot_token = "" \/ message = ""
    THEN [ret |-> FALSE, http |-> FALSE, raised |-> FALSE]
    ELSE [ret |-> (transport = "ok"), http |-> TRUE,
          raised |-> (transport = "error")]
send_message(bot_token, message, transport) ==
    IF bot_token = "" THEN [ret |-> FALSE, http |-> FALSE, raised |-> FALSE]
    ELSE IF message = "" THEN [ret |-> FALSE, http |-> FALSE, raised |-> FALSE]
    ELSE [ret |-> (transport = "ok"), http |-> TRUE, raised |-> FALSE]

\* main() calls the notifier only "if TG_BOT_TOKEN and TG_ADMIN_USER_ID"
NotifyConfigured == TG_BOT_TOKEN # "" /\ TG_ADMIN_USER_ID # 0
Notify(message, transport) ==
    /\ requests_get' =
            IF NotifyConfigured
            THEN requests_get \/ send_message(TG_BOT_TOKEN, message, transport).http
            ELSE requests_get
    /\ notified' = IF NotifyConfigured THEN transport ELSE "none"
\* the call raises: send_message catches every RequestException, so it does
\* not, and the handlers of lines 177 and 212 see nothing of the notifier
NotifyRaises(message, transport) ==
    NotifyConfigured /\ send_message(TG_BOT_TOKEN, message, transport).raised

(***************************************************************************)
(* The bookkeeping of main(), statement by statement.                      *)
(***************************************************************************)
\* lines 144-145: the file is gone at the size read
CacheAfterVanish(c, k) == Del(c, k)
\* lines 156-160
CountAfterIncrement_Twice(n, k) == Put(n, k, Get(n, k, 0) + 2)
CountAfterIncrement(n, k) == Put(n, k, Get(n, k, 0) + 1)
\* line 164
ExceedsMax_AtMax(n) == n >= TRY_MAX_COUNT
ExceedsMax(n) == n > TRY_MAX_COUNT
\* line 168: os.rename(file_path, transfer/filename)
UploadDirAfterRename_Copy(d, p) == d
UploadDirAfterRename(d, p) == [d EXCEPT ![p] = 0]
TransferAfterRename(t, d, p) == [t EXCEPT ![p[2]] = d[p]]
\* lines 173-176
CacheAfterMove_Kept(c, k) == c
CacheAfterMove(c, k) == Del(c, k)
CountAfterMove_Kept(n, k) == n
CountAfterMove(n, k) == Del(n, k)
\* line 188: cached_sha1 or ''
PassedSha1_Empty(sha1) == NoSha1
PassedSha1(sha1) == IF sha1 # NoSha1 THEN sha1 ELSE NoSha1
\* line 198: os.remove(file_path)
UploadDirAfterRemove(d, p) == [d EXCEPT ![p] = 0]
\* lines 200-203
CacheAfterSuccess(c, k) == Del(c, k)
CountAfterSuccess(n, k) == Del(n, k)
\* lines 207-210
CacheAfterFailure(c, k, sha1) == IF sha1 # NoSha1 THEN Put(c, k, sha1) ELSE c

(***************************************************************************)
(* multipart_upload_init, as main() sees it: a result with a status field, *)
(* or one without that may carry the file's hash: the hash passed in, or   *)
(* the one computed from the file when none was passed.                    *)
(***************************************************************************)
multipart_upload_init(path, sha1) ==
    LET computed == IF sha1 # NoSha1 THEN {sha1}
                    ELSE IF exists(path) THEN {SHA1(upload_dir[path])}
                    ELSE {}
    IN  {[status |-> TRUE, filesha1 |-> NoSha1]}
        \cup {[status |-> FALSE, filesha1 |-> h] : h \in computed \cup {NoSha1}}

(***************************************************************************)
(* Initial state: main() is about to run; the configuration was read from  *)
(* the environment and the upload directory holds any files.  A recipient  *)
(* is configured; the bot token is configured or not.                      *)
(***************************************************************************)
InitWith(bot_token, counted) ==
    /\ TRY_MAX_COUNT \in 0..MaxTryMaxCount
    /\ TG_BOT_TOKEN = bot_token
    /\ TG_ADMIN_USER_ID = 1
    /\ upload_dir \in [Paths -> Contents \cup {0}]
    /\ transfer_dir = [f \in Filenames |-> 0]
    /\ cache = EmptyDict
    /\ attempt_count = EmptyDict
    /\ client = "none"
    /\ pc = "start"
    /\ walk = 0
    /\ files = {}
    /\ file_path = NoFile
    /\ attempt = 0
    /\ size1 = 0
    /\ size2 = 0
    /\ stable = FALSE
    /\ cached_sha1 = NoSha1
    /\ upload_result = NoResult
    /\ fatal = ""
    /\ requests_get = FALSE
    /\ differ = 0
    /\ old_count = 0
    /\ last_fail_sha1 = [p \in Paths |-> NoSha1]
    /\ dropped = [p \in Paths |-> FALSE]
    /\ quarantined = [p \in Paths |-> FALSE]
    /\ outcome = ""
    /\ notified = "none"
    /\ calls = [p \in counted |-> 0]

Init == InitWith("token", {})
InitNoToken == InitWith("", {})
InitCounting == InitWith("token", Paths)

\* the locals of the loop body are dead once a file's processing has ended
ResetLocals ==
    /\ file_path' = NoFile
    /\ attempt' = 0
    /\ size1' = 0
    /\ size2' = 0
    /\ stable' = FALSE
    /\ cached_sha1' = NoSha1
    /\ upload_result' = NoResult
    /\ differ' = 0
    /\ old_count' = 0

\* "continue": on to the next file of the directory, with no sleep
Continue == pc' = "files" /\ ResetLocals
\* the end of the loop body: time.sleep(SLEEP_AFTER_FILE) is next
EndOfBody_NoSleep == pc' = "files" /\ ResetLocals
EndOfBody == pc' = "sleep_file" /\ ResetLocals
\* an exception leaves main(): the program prints it and ends
Terminate(why) == pc' = "terminated" /\ fatal' = why /\ ResetLocals
\* history: the program has gone on from the last file
GoneOn == outcome' = "" /\ notified' = "none"
\* history: the file at p has left the upload directory
Gone(p) ==
    calls' = IF p \in DOMAIN calls THEN [calls EXCEPT ![p] = 0] ELSE calls
\* history: line 183 is reached for p
Invoked(p) ==
    calls' = IF p \in DOMAIN calls THEN [calls EXCEPT ![p] = @ + 1] ELSE calls

\* history: the cache entry of p goes at a missing file or a move
Dropped(p) == dropped' = [dropped EXCEPT ![p] = last_fail_sha1[p] # NoSha1]
\* history: an upload call for p is made, or a result for p is handled
Called(p, sha1) ==
    /\ last_fail_sha1' = [last_fail_sha1 EXCEPT ![p] = sha1]
    /\ dropped' = [dropped EXCEPT ![p] = FALSE]

(***************************************************************************)
(* Lines 108-123: the notifier, the start notification, the two dicts and  *)
(* the client.                                                             *)
(***************************************************************************)
Start ==
    /\ pc = "start"
    /\ \E transport \in Transport :
        /\ Notify("start", transport)
        /\ IF NotifyRaises("start", transport)
           THEN pc' = "terminated" /\ fatal' = "send_message" /\ client' = client
           ELSE \E c \in ClientOutcomes :
                IF c = "raise"
                THEN /\ pc' = "terminated"
                     /\ fatal' = "init_115_client"
                     /\ client' = "none"
                ELSE pc' = "walk" /\ fatal' = fatal /\ client' = c
    /\ UNCHANGED <<config, disk, tracking, walk, files, locals, differ,
                   old_count, last_fail_sha1, dropped, quarantined, outcome,
                   calls>>

(***************************************************************************)
(* Line 128: os.walk yields the next directory with the files it holds     *)
(* now, or the walk is over (line 219).                                    *)
(***************************************************************************)
WalkDir ==
    /\ pc = "walk"
    /\ walk < Len(Roots)
    /\ walk' = walk + 1
    /\ files' = listdir(Roots[walk + 1])
    /\ pc' = "files"
    /\ UNCHANGED <<config, disk, tracking, client, locals, fatal, requests_get,
                   history>>

WalkDone ==
    /\ pc = "walk"
    /\ walk = Len(Roots)
    /\ pc' = "sleep_round"
    /\ UNCHANGED <<config, disk, tracking, client, walk, files, locals, fatal,
                   requests_get, history>>

\* line 220
SleepAfterRound ==
    /\ pc = "sleep_round"
    /\ walk' = 0
    /\ pc' = "walk"
    /\ UNCHANGED <<config, disk, tracking, client, files, locals, fatal,
                   requests_get, history>>

(***************************************************************************)
(* Lines 129-135: the next file of the directory, in the order the         *)
(* directory listing gave, which is any order.                             *)
(***************************************************************************)
NextFile ==
    /\ pc = "files"
    /\ \E p \in files :
        /\ files' = files \ {p}
        /\ file_path' = p
        /\ old_count' = Get(attempt_count, p, 0)
    /\ pc' = "size1"
    /\ GoneOn
    /\ UNCHANGED <<config, disk, tracking, client, walk, attempt, size1, size2,
                   stable, cached_sha1, upload_result, fatal, requests_get,
                   differ, last_fail_sha1, dropped, quarantined,
                   calls>>

NoMoreFiles ==
    /\ pc = "files"
    /\ files = {}
    /\ pc' = "walk"
    /\ GoneOn
    /\ UNCHANGED <<config, disk, tracking, client, walk, files, locals, fatal,
                   requests_get, differ, old_count, last_fail_sha1, dropped,
                   quarantined,
                   calls>>

(***************************************************************************)
(* check_file_size_stability(file_path), lines 38-49.  One probe is two    *)
(* size reads a check interval apart; os.path.getsize raises when the file *)
(* is gone, and nothing between the read and the end of main() catches it. *)
(***************************************************************************)
StabilitySize1 ==
    /\ pc = "size1"
    /\ attempt < max_attempts
    /\ exists(file_path)
    /\ size1' = getsize(file_path)
    /\ pc' = "size2"
    /\ UNCHANGED <<config, disk, tracking, client, walk, files, file_path,
                   attempt, size2, stable, cached_sha1, upload_result, fatal,
                   requests_get, history>>

StabilitySize2 ==
    /\ pc = "size2"
    /\ exists(file_path)
    /\ size2' = getsize(file_path)
    /\ differ' = IF size1 # size2' THEN differ + 1 ELSE differ
    /\ IF SizesEqual(size1, size2')
       THEN stable' = TRUE /\ attempt' = attempt /\ pc' = "checked"
       ELSE stable' = stable /\ attempt' = attempt + 1 /\ pc' = "size1"
    /\ UNCHANGED <<config, disk, tracking, client, walk, files, file_path,
                   size1, cached_sha1, upload_result, fatal, requests_get,
                   old_count, last_fail_sha1, dropped, quarantined, outcome,
                   notified,
                   calls>>

StabilityGiveUp ==
    /\ pc = "size1"
    /\ attempt >= max_attempts
    /\ stable' = FALSE
    /\ pc' = "checked"
    /\ UNCHANGED <<config, disk, tracking, client, walk, files, file_path,
                   attempt, size1, size2, cached_sha1, upload_result, fatal,
                   requests_get, history>>

StabilityRaises ==
    /\ \/ pc = "size1" /\ attempt < max_attempts
       \/ pc = "size2"
    /\ ~exists(file_path)
    /\ Terminate("stability_getsize")
    /\ outcome' = "stability_raised"
    /\ UNCHANGED <<config, disk, tracking, client, walk, files, requests_get,
                   last_fail_sha1, dropped, quarantined, notified,
                   calls>>

\* lines 135-136, and the same without the "continue" of line 136
Unstable_FallsThrough ==
    /\ pc = "checked"
    /\ ~stable
    /\ exists(file_path)
    /\ Get(attempt_count, file_path, 0) < MaxCount
    /\ cached_sha1' = Get(cache, file_path, NoSha1)
    /\ attempt_count' = CountAfterIncrement(attempt_count, file_path)
    /\ pc' = IF ExceedsMax(attempt_count'[file_path]) THEN "rename" ELSE "upload"
    /\ UNCHANGED <<config, disk, cache, client, walk, files, file_path, attempt,
                   size1, size2, stable, upload_result, fatal, requests_get,
                   history>>
Unstable ==
    /\ pc = "checked"
    /\ ~stable
    /\ Continue
    /\ outcome' = "unstable"
    /\ UNCHANGED <<config, disk, tracking, client, walk, files, fatal,
                   requests_get, last_fail_sha1, dropped, quarantined, notified,
                   calls>>

(***************************************************************************)
(* Lines 139-164: the size read, the cache lookup and the attempt counter. *)
(* The size read matters by raising or not: the size itself goes to the    *)
(* upload call only.                                                       *)
(***************************************************************************)
Vanished ==
    /\ pc = "checked"
    /\ stable
    /\ ~exists(file_path)
    /\ cache' = CacheAfterVanish(cache, file_path)
    /\ Dropped(file_path)
    /\ Continue
    /\ outcome' = "vanished"
    /\ UNCHANGED <<config, disk, attempt_count, client, walk, files, fatal,
                   requests_get, last_fail_sha1, quarantined, notified,
                   calls>>

CountAttempt ==
    /\ pc = "checked"
    /\ stable
    /\ exists(file_path)
    /\ Get(attempt_count, file_path, 0) < MaxCount
    /\ cached_sha1' = Get(cache, file_path, NoSha1)
    /\ attempt_count' = CountAfterIncrement(attempt_count, file_path)
    /\ pc' = IF ExceedsMax(attempt_count'[file_path]) THEN "rename" ELSE "upload"
    /\ UNCHANGED <<config, disk, cache, client, walk, files, file_path, attempt,
                   size1, size2, stable, upload_result, fatal, requests_get,
                   history>>

(***************************************************************************)
(* Lines 164-179: the counter exceeds TRY_MAX_COUNT.  os.rename moves the  *)
(* file onto transfer/filename, or raises, which is printed.               *)
(***************************************************************************)
MoveToTransfer ==
    /\ pc = "rename"
    /\ exists(file_path)
    /\ upload_dir' = UploadDirAfterRename(upload_dir, file_path)
    /\ transfer_dir' = TransferAfterRename(transfer_dir, upload_dir, file_path)
    /\ quarantined' = [quarantined EXCEPT ![file_path] = TRUE]
    /\ \E transport \in Transport :
        /\ Notify("moved", transport)
        /\ IF NotifyRaises("moved", transport)
           THEN /\ UNCHANGED <<tracking, dropped>>
                /\ outcome' = "move_failed"
           ELSE /\ cache' = CacheAfterMove(cache, file_path)
                /\ attempt_count' = CountAfterMove(attempt_count, file_path)
                /\ Dropped(file_path)
                /\ outcome' = "moved"
    /\ Continue
    /\ Gone(file_path)
    /\ UNCHANGED <<config, client, walk, files, fatal, last_fail_sha1>>

\* the handler of line 177, were it to clear the tracking as line 173 does
MoveFails_Forgets ==
    /\ pc = "rename"
    /\ cache' = CacheAfterMove(cache, file_path)
    /\ attempt_count' = CountAfterMove(attempt_count, file_path)
    /\ Continue
    /\ outcome' = "move_failed"
    /\ UNCHANGED <<config, disk, client, walk, files, fatal, requests_get,
                   last_fail_sha1, dropped, quarantined, notified, calls>>
MoveFails ==
    /\ pc = "rename"
    /\ Continue
    /\ outcome' = "move_failed"
    /\ UNCHANGED <<config, disk, tracking, client, walk, files, fatal,
                   requests_get, last_fail_sha1, dropped, quarantined, notified,
                   calls>>

(***************************************************************************)
(* Lines 182-190 and 212-214: the upload call returns a result or raises;  *)
(* the handler makes a new client, which raises in its turn or not.        *)
(***************************************************************************)
UploadReturns ==
    /\ pc = "upload"
    /\ upload_result' \in multipart_upload_init(file_path, PassedSha1(cached_sha1))
    /\ pc' = "result"
    /\ Called(file_path, NoSha1)
    /\ Invoked(file_path)
    /\ UNCHANGED <<config, disk, tracking, client, walk, files, file_path,
                   attempt, size1, size2, stable, cached_sha1, fatal,
                   requests_get, differ, old_count, quarantined, outcome,
                   notified>>

UploadRaises ==
    /\ pc = "upload"
    /\ Called(file_path, NoSha1)
    /\ \E c \in ClientOutcomes :
        IF c = "raise"
        THEN Terminate("reinit_after_upload") /\ client' = client
        ELSE EndOfBody /\ client' = c /\ fatal' = fatal
    /\ outcome' = "upload_raised"
    /\ Invoked(file_path)
    /\ UNCHANGED <<config, disk, tracking, walk, files, requests_get,
                   quarantined, notified>>

(***************************************************************************)
(* Lines 193-203: a result with a status field.  os.remove raises when the *)
(* file is gone, which lands in the handler of line 212.                   *)
(***************************************************************************)
DeleteUploaded ==
    /\ pc = "result"
    /\ upload_result.status
    /\ \E transport \in Transport :
        /\ Notify("success", transport)
        /\ ~NotifyRaises("success", transport)
    /\ exists(file_path)
    /\ upload_dir' = UploadDirAfterRemove(upload_dir, file_path)
    /\ cache' = CacheAfterSuccess(cache, file_path)
    /\ attempt_count' = CountAfterSuccess(attempt_count, file_path)
    /\ EndOfBody
    /\ outcome' = "uploaded"
    /\ Gone(file_path)
    /\ UNCHANGED <<config, transfer_dir, client, walk, files, fatal,
                   last_fail_sha1, dropped, quarantined>>

\* an exception between line 193 and line 203
DeleteRaises ==
    /\ pc = "result"
    /\ upload_result.status
    /\ \E transport \in Transport :
        /\ Notify("success", transport)
        /\ NotifyRaises("success", transport) \/ ~exists(file_path)
    /\ \E c \in ClientOutcomes :
        IF c = "raise"
        THEN Terminate("reinit_after_remove") /\ client' = client
        ELSE EndOfBody /\ client' = c /\ fatal' = fatal
    /\ outcome' = "remove_raised"
    /\ UNCHANGED <<config, disk, tracking, walk, files, last_fail_sha1, dropped,
                   quarantined,
                   calls>>

\* lines 204-210: a result without a status field
UploadFailed ==
    /\ pc = "result"
    /\ ~upload_result.status
    /\ cache' = CacheAfterFailure(cache, file_path, upload_result.filesha1)
    /\ Called(file_path, upload_result.filesha1)
    /\ EndOfBody
    /\ outcome' = "upload_failed"
    /\ UNCHANGED <<config, disk, attempt_count, client, walk, files, fatal,
                   requests_get, quarantined, notified,
                   calls>>

\* line 217
SleepAfterFile ==
    /\ pc = "sleep_file"
    /\ pc' = "files"
    /\ GoneOn
    /\ UNCHANGED <<config, disk, tracking, client, walk, files, locals, fatal,
                   requests_get, differ, old_count, last_fail_sha1, dropped,
                   quarantined,
                   calls>>

(***************************************************************************)
(* The other parties: a writer creates a file or changes its content, and  *)
(* anyone deletes a file, between any two steps of the program.            *)
(***************************************************************************)
EnvWrite ==
    /\ pc # "terminated"
    /\ \E p \in Paths, c \in Contents :
        /\ upload_dir[p] # c
        /\ upload_dir' = [upload_dir EXCEPT ![p] = c]
        /\ quarantined' = IF exists(p) THEN quarantined
                          ELSE [quarantined EXCEPT ![p] = FALSE]
    /\ UNCHANGED <<config, transfer_dir, tracking, client, pc, walk, files,
                   locals, fatal, requests_get, differ, old_count,
                   last_fail_sha1, dropped, outcome, notified,
                   calls>>

EnvDelete ==
    /\ pc # "terminated"
    /\ \E p \in Paths :
        /\ exists(p)
        /\ upload_dir' = [upload_dir EXCEPT ![p] = 0]
        /\ Gone(p)
    /\ UNCHANGED <<config, transfer_dir, tracking, client, pc, walk, files,
                   locals, fatal, requests_get, differ, old_count, last_fail_sha1,
                   dropped, quarantined, outcome, notified>>

Next ==
    \/ Start
    \/ WalkDir
    \/ WalkDone
    \/ SleepAfterRound
    \/ NextFile
    \/ NoMoreFiles
    \/ StabilitySize1
    \/ StabilitySize2
    \/ StabilityGiveUp
    \/ StabilityRaises
    \/ Unstable
    \/ Vanished
    \/ CountAttempt
    \/ MoveToTransfer
    \/ MoveFails
    \/ UploadReturns
    \/ UploadRaises
    \/ DeleteUploaded
    \/ DeleteRaises
    \/ UploadFailed
    \/ SleepAfterFile
    \/ EnvWrite
    \/ EnvDelete

\* the run with a bot token configured, and the run without
Spec == Init /\ [][Next]_vars
SpecNoToken == InitNoToken /\ [][Next]_vars
\* the run whose history counts the upload calls of each file
SpecCounting == InitCounting /\ [][Next]_vars

(***************************************************************************)
(* The run in which one file stays.  Nobody but the program touches        *)
(* UPLOAD_DIR/x; the other file is changed or deleted, not written again.  *)
(* os.rename succeeds on a file that is there and init_115_client never    *)
(* raises.  The program itself always goes on: a sleep ends, a call        *)
(* returns or raises, so a step of the program that can be taken is taken. *)
(***************************************************************************)
Staying == <<".", "x">>
Other == <<"sub", "x">>
InitLive == InitWith("token", {}) /\ exists(Staying)
StartLive == Start /\ pc' # "terminated"
MoveFailsLive == MoveFails /\ ~exists(file_path)
UploadRaisesLive == UploadRaises /\ pc' # "terminated"
DeleteRaisesLive == DeleteRaises /\ pc' # "terminated"
EnvWriteLive ==
    EnvWrite /\ exists(Other) /\ upload_dir'[Staying] = upload_dir[Staying]
EnvDeleteLive == EnvDelete /\ upload_dir'[Staying] = upload_dir[Staying]
ProgramLive ==
    \/ StartLive
    \/ WalkDir
    \/ WalkDone
    \/ SleepAfterRound
    \/ NextFile
    \/ NoMoreFiles
    \/ StabilitySize1
    \/ StabilitySize2
    \/ StabilityGiveUp
    \/ StabilityRaises
    \/ Unstable
    \/ Vanished
    \/ CountAttempt
    \/ MoveToTransfer
    \/ MoveFailsLive
    \/ UploadReturns
    \/ UploadRaisesLive
    \/ DeleteUploaded
    \/ DeleteRaisesLive
    \/ UploadFailed
    \/ SleepAfterFile
NextLive ==
    \/ ProgramLive
    \/ EnvWriteLive
    \/ EnvDeleteLive
SpecLive == InitLive /\ [][NextLive]_vars /\ WF_vars(ProgramLive)

(***************************************************************************)
(* Vocabulary of the properties.                                           *)
(***************************************************************************)
Tracked(p) == p \in DOMAIN cache \/ p \in DOMAIN attempt_count
Processing == file_path # NoFile
\* a step of the program (the other parties leave pc alone) that handles a
\* result with a status field
HandlesSuccess == pc = "result" /\ upload_result.status /\ pc' # "result"
\* a step of the program that ends the move of lines 165-179
EndsMove == pc = "rename" /\ pc' # "rename"
\* the move happened: the file left the upload directory for transfer/filename
MovedNow ==
    /\ exists(file_path)
    /\ upload_dir'[file_path] = 0
    /\ transfer_dir'[file_path[2]] = upload_dir[file_path]
    /\ file_path \notin DOMAIN cache'
    /\ file_path \notin DOMAIN attempt_count'

(***************************************************************************)
(* C1.  A result with a status field: once the program has handled it, the *)
(* file is gone from the upload directory and neither the cache nor the    *)
(* attempt counters hold its path.                                         *)
(***************************************************************************)
C1_SuccessForgetsFile ==
    [][HandlesSuccess =>
          /\ upload_dir'[file_path] = 0
          /\ file_path \notin DOMAIN cache'
          /\ file_path \notin DOMAIN attempt_count']_vars

(***************************************************************************)
(* C2, as claimed.  Once the counter exceeds TRY_MAX_COUNT the file is     *)
(* moved to the transfer directory and its path leaves the tracking.       *)
(***************************************************************************)
C2_ExceededIsMoved == [][EndsMove => MovedNow]_vars

(***************************************************************************)
(* C2, amended.  A counter that exceeds TRY_MAX_COUNT sends the program to *)
(* the move in that same pass, and never to the upload call.  When the     *)
(* rename succeeds, the file leaves the upload directory for the transfer  *)
(* directory, it had not been moved before, and its path leaves the cache  *)
(* and the counters; when the rename fails, the directories and the        *)
(* tracking stay as they were.                                             *)
(***************************************************************************)
C2_MovedOnceWhenRenamed ==
    /\ [](pc \in {"upload", "result"} =>
            /\ file_path \in DOMAIN attempt_count
            /\ ~ExceedsMax(attempt_count[file_path]))
    /\ [](pc = "rename" =>
            /\ file_path \in DOMAIN attempt_count
            /\ ExceedsMax(attempt_count[file_path]))
    /\ [][EndsMove =>
            \/ MovedNow /\ ~quarantined[file_path] /\ quarantined'[file_path]
            \/ UNCHANGED <<disk, tracking, quarantined>>]_vars
    /\ [][\A p \in Paths :
            quarantined[p] /\ quarantined'[p] => ~(EndsMove /\ file_path = p)]_vars

C2_Witness ==
    /\ pc = "files"
    /\ \E p \in Paths : quarantined[p] /\ ~Tracked(p) /\ transfer_dir[p[2]] # 0

(***************************************************************************)
(* C3, as claimed.  After a failure result that carried a hash, the next   *)
(* upload call for the path passes that hash.                              *)
(***************************************************************************)
C3_NextCallPassesHash ==
    pc = "upload" /\ last_fail_sha1[file_path] # NoSha1
        => PassedSha1(cached_sha1) = last_fail_sha1[file_path]

(***************************************************************************)
(* C3, amended.  After a failure result that carried a hash, the next      *)
(* upload call for the path passes that hash, unless in between the file   *)
(* was found missing at the size read or was moved to the transfer         *)
(* directory: the cache entry went with it, and a file created at the path *)
(* afterwards is uploaded with the empty string.                           *)
(***************************************************************************)
C3_NextCallPassesHashUnlessDropped ==
    pc = "upload" /\ last_fail_sha1[file_path] # NoSha1
        => IF dropped[file_path]
           THEN PassedSha1(cached_sha1) = NoSha1
           ELSE PassedSha1(cached_sha1) = last_fail_sha1[file_path]

C3_Witness ==
    /\ pc = "upload"
    /\ last_fail_sha1[file_path] # NoSha1
    /\ ~dropped[file_path]
    /\ PassedSha1(cached_sha1) = last_fail_sha1[file_path]

(***************************************************************************)
(* C4, as claimed.  A pass that lists a file and leaves it in the upload   *)
(* directory has increased its attempt counter by exactly one.             *)
(***************************************************************************)
C4_EveryListingCounts ==
    [][(/\ Processing
        /\ file_path' = NoFile
        /\ pc' # "terminated"
        /\ exists(file_path)
        /\ upload_dir'[file_path] # 0)
          => Get(attempt_count', file_path, 0) = old_count + 1]_vars

(***************************************************************************)
(* C4, amended.  A pass increases the file's attempt counter by exactly    *)
(* one when the stability check returned true and the file was still there *)
(* at the size read that follows; up to that point of the pass, and in a   *)
(* pass where the check returns false or the file is gone, the counter is  *)
(* what it was when the file was picked.  A counter changes in no other    *)
(* way than by being removed when its file is deleted after a success      *)
(* result or moved to the transfer directory.                              *)
(***************************************************************************)
C4_CountsOncePerAttemptedPass ==
    /\ [](pc \in {"size1", "size2", "checked"} =>
            Get(attempt_count, file_path, 0) = old_count)
    /\ [](pc \in {"rename", "upload", "result"} =>
            Get(attempt_count, file_path, 0) = old_count + 1)
    /\ [][\A p \in Paths :
            Get(attempt_count', p, 0) # Get(attempt_count, p, 0) =>
                /\ file_path = p
                /\ \/ /\ pc = "checked" /\ stable /\ exists(p)
                      /\ Get(attempt_count', p, 0) = Get(attempt_count, p, 0) + 1
                   \/ /\ pc \in {"rename", "result"}
                      /\ p \notin DOMAIN attempt_count'
                      /\ exists(p) /\ upload_dir'[p] = 0]_vars

C4_Witness ==
    pc = "upload" /\ old_count = 1 /\ attempt_count[file_path] = 2

(***************************************************************************)
(* C5.  An exception of the upload call never ends the polling loop.       *)
(***************************************************************************)
C5_UploadExceptionNotFatal == fatal # "reinit_after_upload"

(***************************************************************************)
(* C6.  A file deleted after the listing and before or during a size read  *)
(* of the pass never ends the polling loop.                                *)
(***************************************************************************)
C6_DeletedFileNotFatal == fatal # "stability_getsize"

(***************************************************************************)
(* C7.  When the program finds the file gone at the size read, neither the *)
(* cache nor the attempt counters hold its path afterwards.                *)
(***************************************************************************)
C7_VanishedIsForgotten ==
    [][(pc = "checked" /\ stable /\ ~exists(file_path) /\ pc' # "checked") =>
          /\ file_path \notin DOMAIN cache'
          /\ file_path \notin DOMAIN attempt_count']_vars

(***************************************************************************)
(* C8.  After a file was moved to the transfer directory, and as long as   *)
(* no file is created at its path, the path is in neither the cache nor    *)
(* the attempt counters, and the program is not in an upload call, the     *)
(* handling of a result or a move for it.                                  *)
(***************************************************************************)
C8_QuarantinedStaysOut ==
    \A p \in Paths :
        quarantined[p] =>
            /\ ~exists(p)
            /\ ~Tracked(p)
            /\ ~(file_path = p /\ pc \in {"upload", "result", "rename"})

C8_Witness ==
    \E p \in Paths : quarantined[p] /\ pc = "walk" /\ walk = 0 /\ ~Tracked(p)

(***************************************************************************)
(* C9.  check_file_size_stability makes at most max_attempts probes; it    *)
(* returns true at the first probe that read two equal sizes, every probe  *)
(* before it having read two different ones; it returns false exactly when *)
(* all max_attempts probes read two different sizes.                       *)
(***************************************************************************)
C9_StabilityResult ==
    /\ attempt <= max_attempts
    /\ pc \in {"size1", "size2"} => differ = attempt /\ ~stable
    /\ pc = "size2" => attempt < max_attempts
    /\ pc = "checked" =>
        /\ stable => size1 = size2 /\ differ = attempt /\ attempt < max_attempts
        /\ ~stable => attempt = max_attempts
        /\ ~stable <=> differ = max_attempts

C9_Witness == pc = "checked" /\ stable /\ differ = 1 /\ size1 = size2

(***************************************************************************)
(* C10.  Without a bot token, send_message returns false for every message *)
(* and calls requests.get for none, and requests.get is not called at any  *)
(* point of the run.                                                       *)
(***************************************************************************)
Messages == {"", "start", "moved", "success"}
C10_NoTokenNoRequest ==
    TG_BOT_TOKEN = "" =>
        /\ ~requests_get
        /\ \A m \in Messages, t \in Transport :
              send_message(TG_BOT_TOKEN, m, t) =
                  [ret |-> FALSE, http |-> FALSE, raised |-> FALSE]

C10_Witness ==
    /\ TG_BOT_TOKEN = ""
    /\ ~requests_get
    /\ \E p \in Paths : quarantined[p]

(***************************************************************************)
(* C11.  A transport failure during a notification is not raised: for      *)
(* every message send_message returns false and raises nothing, the start  *)
(* notification does not end the program, and a step of the polling loop   *)
(* whose notification met a transport failure does what it does when the   *)
(* message is delivered: the move ends with the file in the transfer       *)
(* directory and the path untracked, and the handling of a success result  *)
(* of a file still present ends with the file deleted, the path untracked  *)
(* and the per-file sleep next.                                            *)
(***************************************************************************)
\* a step of the program whose send_message call met a transport failure
TransportFailed(at) == pc = at /\ pc' # at /\ notified' = "error"
C11_TransportFailureNotRaised ==
    [][/\ \A m \in Messages :
            /\ ~send_message(TG_BOT_TOKEN, m, "error").ret
            /\ ~send_message(TG_BOT_TOKEN, m, "error").raised
       /\ TransportFailed("start") => fatal' # "send_message"
       /\ TransportFailed("rename") => MovedNow /\ pc' = "files"
       /\ TransportFailed("result") /\ exists(file_path) =>
            /\ upload_dir'[file_path] = 0
            /\ file_path \notin DOMAIN cache'
            /\ file_path \notin DOMAIN attempt_count'
            /\ pc' = "sleep_file"]_vars

C11_Witness ==
    /\ notified = "error"
    /\ requests_get
    /\ outcome = "uploaded"
    /\ \A p \in Paths : ~exists(p) /\ ~Tracked(p)

(***************************************************************************)
(* C12.  The upload call is made for a path only while its attempt counter *)
(* is between 1 and TRY_MAX_COUNT, and a file that is moved to the         *)
(* transfer directory has received exactly TRY_MAX_COUNT upload calls,     *)
(* the calls that raised included, none of them in the pass that moves it. *)
(***************************************************************************)
C12_ExactlyMaxCalls ==
    [][/\ pc = "upload" =>
            /\ attempt_count[file_path] >= 1
            /\ attempt_count[file_path] <= TRY_MAX_COUNT
       /\ outcome = "" /\ outcome' = "moved" =>
            /\ calls[file_path] = TRY_MAX_COUNT
            /\ last_fail_sha1' = last_fail_sha1]_vars

(***************************************************************************)
(* C13.  A step of the program that takes a file out of the upload         *)
(* directory takes the file of the pass, and is either the deletion after  *)
(* a result with a status field that the upload call of this pass returned *)
(* for it, which puts nothing in the transfer directory, or the move of a  *)
(* file whose counter exceeds TRY_MAX_COUNT, which puts the file in the    *)
(* transfer directory.  A pass whose upload call returned a failure result *)
(* or raised leaves the upload directory as it is.                         *)
(***************************************************************************)
\* a step of the program, not of the other parties, empties path p
Removes(p) == pc' # pc /\ exists(p) /\ upload_dir'[p] = 0
C13_RemovedOnlyBySuccessOrMove ==
    [][/\ \A p \in Paths : Removes(p) =>
            /\ p = file_path
            /\ \/ /\ pc = "result"
                  /\ upload_result.status
                  /\ outcome' = "uploaded"
                  /\ transfer_dir' = transfer_dir
               \/ /\ pc = "rename"
                  /\ attempt_count[p] > TRY_MAX_COUNT
                  /\ outcome' = "moved"
                  /\ transfer_dir'[p[2]] = upload_dir[p]
       /\ outcome = "" /\ outcome' \in {"upload_failed", "upload_raised"} =>
            upload_dir' = upload_dir]_vars

C13_Witness ==
    /\ outcome = "moved"
    /\ \A p \in Paths : ~exists(p)
    /\ transfer_dir["x"] # 0
    /\ TRY_MAX_COUNT = 2

(***************************************************************************)
(* C14.  From the listing of a file to the end of a pass whose stability   *)
(* check returns false, no step of the program makes the upload call,      *)
(* deletes or moves a file, or changes the hash cache or the attempt       *)
(* counters, and the pass ends at the "continue" of line 136.              *)
(***************************************************************************)
\* the program is between the listing and the verdict of the stability
\* check, or holds the verdict "not stable"
BeforeStable == pc \in {"files", "size1", "size2"} \/ (pc = "checked" /\ ~stable)
C14_UnstableTouchesNothing ==
    [][pc' # pc /\ BeforeStable =>
            /\ UNCHANGED <<disk, tracking, last_fail_sha1, requests_get>>
            /\ pc' \in {"walk", "size1", "size2", "checked", "files",
                        "terminated"}
            /\ pc = "checked" => pc' = "files" /\ outcome' = "unstable"]_vars

C14_Witness ==
    /\ outcome = "unstable"
    /\ pc = "files"
    /\ \A p \in Paths : exists(p) <=> p = <<".", "x">>
    /\ cache = Put(EmptyDict, <<".", "x">>, SHA1(1))
    /\ attempt_count = Put(EmptyDict, <<".", "x">>, 1)

(***************************************************************************)
(* C15.  A non-empty hash passed to the upload call for a path is the hash *)
(* of the content that the file at the path has at the call.               *)
(***************************************************************************)
C15_PassedHashIsOfContent ==
    pc = "upload" /\ exists(file_path) /\ PassedSha1(cached_sha1) # NoSha1 =>
        PassedSha1(cached_sha1) = SHA1(upload_dir[file_path])

(***************************************************************************)
(* C16.  A file that is in the transfer directory stays there as it is:    *)
(* no step replaces or removes it.                                         *)
(***************************************************************************)
C16_QuarantinedNotOverwritten ==
    [][\A f \in Filenames :
            transfer_dir[f] # 0 => transfer_dir'[f] = transfer_dir[f]]_vars

(***************************************************************************)
(* C17.  With renames and client initialisations that succeed, the file    *)
(* that stays in the upload directory with a stable size leaves it in the  *)
(* end, deleted after a success result or moved to the transfer directory. *)
(***************************************************************************)
C17_StayingFileLeaves == exists(Staying) ~> ~exists(Staying)

(***************************************************************************)
(* C18.  When os.rename raises, the pass ends at the "continue" of line    *)
(* 179 with the upload and transfer directories, the hash cache and the    *)
(* attempt counters as they were, without a notification and without an    *)
(* upload call; the counter still exceeds TRY_MAX_COUNT, and a later pass  *)
(* that finds the counter already exceeded goes to the move again, not to  *)
(* the upload call.                                                        *)
(***************************************************************************)
C18_FailedMoveKeepsAll ==
    [][/\ outcome = "" /\ outcome' = "move_failed" =>
            /\ UNCHANGED <<disk, tracking, requests_get, last_fail_sha1>>
            /\ notified' = "none"
            /\ pc = "rename" /\ pc' = "files"
            /\ attempt_count'[file_path] > TRY_MAX_COUNT
       /\ pc = "checked" /\ pc' \in {"upload", "rename"}
                         /\ old_count > TRY_MAX_COUNT => pc' = "rename"]_vars

\* the second try of a move: the counter exceeded the maximum before the pass
C18_Witness ==
    /\ pc = "rename"
    /\ exists(file_path)
    /\ old_count > TRY_MAX_COUNT
    /\ attempt_count[file_path] = old_count + 1
    /\ file_path \in DOMAIN cache

(***************************************************************************)
(* C19, as claimed.  Whatever the outcome of a file's processing, the      *)
(* per-file sleep of line 217 comes before the next file is considered     *)
(* (unless the program has ended).                                         *)
(***************************************************************************)
C19_DelayAfterEveryFile == outcome # "" => pc \in {"sleep_file", "terminated"}

(***************************************************************************)
(* C19, corrected.  The per-file sleep follows the passes that reach the   *)
(* upload call (uploaded, failed, exception), unless the exception handler *)
(* ends the program; an unstable, vanished or quarantined file and a       *)
(* failed move are followed by the next file at once.  Every full sweep    *)
(* is followed by the per-round sleep, and no sweep starts without it.     *)
(***************************************************************************)
AfterCall == {"uploaded", "upload_failed", "upload_raised", "remove_raised"}
BeforeCall == {"unstable", "vanished", "moved", "move_failed"}
C19_DelayAfterUploadPasses ==
    [][/\ outcome = "" /\ outcome' \in AfterCall =>
            pc' \in {"sleep_file", "terminated"}
       /\ outcome = "" /\ outcome' \in BeforeCall => pc' = "files"
       /\ pc = "walk" /\ walk = Len(Roots) /\ pc' # pc => pc' = "sleep_round"
       /\ walk # 0 /\ walk' = 0 => pc = "sleep_round"]_vars

C19_Witness ==
    /\ pc = "sleep_file"
    /\ outcome = "upload_failed"
    /\ walk = Len(Roots)
    /\ \A p \in Paths : exists(p)

====
